---- MODULE Spec2Model ----
(***************************************************************************)
(* port-check: reachability of a TCP endpoint and discovery of free local  *)
(* TCP ports (src/src/lib.rs).                                             *)
(*                                                                         *)
(* The library keeps no state of its own: everything it observes is the    *)
(* host's table of listening sockets on the loopback addresses 127.0.0.1   *)
(* (Ipv4) and ::1 (Ipv6).  The model's state is that table, the socket a   *)
(* call holds while it runs, and the position of each caller inside the    *)
(* call it is making.  A call is a sequence of steps separated exactly     *)
(* where the code makes a system call that other processes can observe     *)
(* (bind+listen, connect, close).  A bind fails only because the address   *)
(* is in use, a connect only because nothing listens on the address, and  *)
(* reading back the address of a socket just bound succeeds.               *)
(***************************************************************************)
EXTENDS Integers, Sequences, FiniteSets, TLC

VARIABLES
    listeners,  \* listening sockets of other processes: set of <<port, family>>
    pc,         \* pc[c]: position of caller c ("idle", a step label, "done")
    call,       \* call[c]: the call c is making (operation and arguments)
    cur,        \* call[c]'s cursor: port being probed / index of the candidate
    sock,       \* sock[c]: the socket the call holds: <<>> or <<kind, port, family>>
    res,        \* res[c]: <<>> while running, <<value>> once the call returned
    log,        \* log[c]: the system calls made by the call, in order (history)
    clean,      \* clean[c]: no other process changed the socket table since
                \*           the call began (history)
    stale,      \* stale[c]: another process changed the socket table after the
                \*           call returned (history)
    before      \* before[c]: the previous call, its result, and since when no
                \*           other process has changed the socket table (history)

vars == <<listeners, pc, call, cur, sock, res, log, clean, stale, before>>

---------------------------------------------------------------------------
(* Bounds of the model *)

\* concrete ports are 1..MaxPort; port 0 is the request for an ephemeral port
MaxPort == 2
\* longest list of socket addresses a name resolves to
MaxAddrs == 2

---------------------------------------------------------------------------
(* Data *)

Families == {"Ipv4", "Ipv6"}
OtherFamily(f) == IF f = "Ipv4" THEN "Ipv6" ELSE "Ipv4"
LocalPorts == 1..MaxPort
Callers == {"a", "b"}

NoSock == <<>>
NoRes == <<>>
NoCall == [op |-> "none"]
None == <<"None">>
Some(p) == <<"Some", p>>

\* Port::Ipv4(port) / Port::Ipv6(port); a bare u16 converts to Port::Ipv4.
\* The calls of the model ask about the ports a listener can hold; port 0 is
\* not one of them.
Port == [fam : Families, port : LocalPorts]

\* Ports::Ipv4(range) / Ports::Ipv6(range) over lo..hi (incl = FALSE) or lo..=hi
Ports == [fam : Families, lo : LocalPorts, hi : LocalPorts, incl : BOOLEAN]

\* fault: the upper bound of the range is ignored
RangeItems_NoUpperBound(lo, hi, incl) == {p \in LocalPorts : lo <= p}

\* the ports a std::ops range yields, lowest first
RangeItems(lo, hi, incl) == {p \in LocalPorts : lo <= p /\ (IF incl THEN p <= hi ELSE p < hi)}

\* sequences over S of length at most n
RECURSIVE SeqsUpTo(_, _)
SeqsUpTo(S, n) ==
    IF n = 0 THEN {<<>>}
    ELSE LET shorter == SeqsUpTo(S, n - 1)
         IN  shorter \cup {Append(s, x) : s \in {t \in shorter : Len(t) = n - 1}, x \in S}

\* What address.to_socket_addrs() yields: an error, or a list of socket
\* addresses.  A SocketAddrV4 / SocketAddrV6 yields the one-element list; a
\* "host:port" string yields the host's addresses, all with that port.
Resolved ==
    {[ok |-> FALSE, addrs |-> <<>>]} \cup
    {[ok |-> TRUE, addrs |-> [i \in 1..Len(fs) |-> <<p, fs[i]>>]] :
        p \in LocalPorts, fs \in SeqsUpTo(Families, MaxAddrs)}

---------------------------------------------------------------------------
(* The host's socket table *)

Listener(p, f) == <<"listener", p, f>>
Stream(p, f) == <<"stream", p, f>>

\* some caller other than c holds a listening socket on (p, f)
HeldByOther(c, p, f) == \E d \in Callers \ {c} : sock[d] = Listener(p, f)

\* fault: the listener of a probe does not occupy the port
Held_ListenersOnly(p, f) == <<p, f>> \in listeners

\* a listening socket occupies (p, f)
Held(p, f) == <<p, f>> \in listeners \/ \E d \in Callers : sock[d] = Listener(p, f)

\* fault: a bind to an address in use succeeds
bind_ok_Always(held) == TRUE

\* TcpListener::bind(addr).is_ok(): the bind fails when the address is in use
bind_ok(held) == ~held

\* fault: a connect is reported successful with no listener
connect_ok_Always(held) == TRUE

\* TcpStream::connect / connect_timeout(addr).is_ok(): a listener accepts
connect_ok(held) == held

\* fault: the socket is kept open
Drop_Leak(s) == s

\* dropping the TcpListener / TcpStream closes the socket
Drop(s) == NoSock

\* fault: the IPv6 probe binds the IPv4 loopback address
LocalSocketAddr_Ipv4Only(fam, port) == <<port, "Ipv4">>

\* the socket address a probe of `port` on family `fam` binds
\* (SocketAddrV4::new(Ipv4Addr::LOCALHOST, port) / SocketAddrV6::new(Ipv6Addr::LOCALHOST, port, 0, 0))
LocalSocketAddr(fam, port) == <<port, fam>>

\* listener.local_addr().map(|addr| addr.port())
local_port(s) == s[2]

\* one entry of the history of a call: the address, what held it at the time
\* of the system call, and the outcome
Entry(c, p, f, ok) ==
    [port |-> p, fam |-> f, ok |-> ok,
     ext |-> <<p, f>> \in listeners,
     sib |-> <<p, OtherFamily(f)>> \in listeners,
     other |-> HeldByOther(c, p, f)]

\* The socket table changes by a step of the processes in `by`: for every other
\* caller the history of an undisturbed run ends
Changed(by) ==
    /\ clean' = [d \in Callers |->
                    IF d \in by \/ pc[d] \in {"idle", "done"} THEN clean[d] ELSE FALSE]
    /\ stale' = [d \in Callers |-> IF d \in by THEN stale[d] ELSE pc[d] = "done"]
    /\ before' = [d \in Callers |-> IF d \in by THEN before[d] ELSE NoCall]

Disturb(c) == Changed({c})

Quiet == UNCHANGED <<clean, stale, before>>

\* the call b was is_port_reachable on the socket address (p, f) and returned true
Reached(b, p, f) ==
    /\ b.op # "none"
    /\ b.call.op = "is_port_reachable"
    /\ b.call.resolved.addrs = << <<p, f>> >>
    /\ b.res = TRUE

---------------------------------------------------------------------------
Init ==
    /\ listeners \in SUBSET (LocalPorts \X Families)
    /\ pc = [c \in Callers |-> "idle"]
    /\ call = [c \in Callers |-> NoCall]
    /\ cur = [c \in Callers |-> 0]
    /\ sock = [c \in Callers |-> NoSock]
    /\ res = [c \in Callers |-> NoRes]
    /\ log = [c \in Callers |-> <<>>]
    /\ clean = [c \in Callers |-> TRUE]
    /\ stale = [c \in Callers |-> FALSE]
    /\ before = [c \in Callers |-> NoCall]

---------------------------------------------------------------------------
(* Other processes: a listener is bound, a listener is released *)

Listen(p, f) ==
    /\ ~Held(p, f)
    /\ listeners' = listeners \cup {<<p, f>>}
    /\ Changed({})
    /\ UNCHANGED <<pc, call, cur, sock, res, log>>

\* the history of an idle caller whose last call reached this very listener
\* records the release
Close(p, f) ==
    /\ <<p, f>> \in listeners
    /\ listeners' = listeners \ {<<p, f>>}
    /\ clean' = [d \in Callers |-> IF pc[d] \in {"idle", "done"} THEN clean[d] ELSE FALSE]
    /\ stale' = [d \in Callers |-> pc[d] = "done"]
    /\ before' = [d \in Callers |->
                     IF pc[d] = "idle" /\ Reached(before[d], p, f)
                     THEN [before[d] EXCEPT !.since = "released"]
                     ELSE NoCall]
    /\ UNCHANGED <<pc, call, cur, sock, res, log>>

Env == \E p \in LocalPorts, f \in Families : Listen(p, f) \/ Close(p, f)

---------------------------------------------------------------------------
(* Helpers of the steps *)

\* the previous call b bears on the call k: k repeats it, or k asks about the
\* port that free_local_port has just returned
Related(b, k) ==
    /\ b.op # "none"
    /\ \/ b.call = k
       \/ /\ b.call.op = "free_local_port"
          /\ b.res # None
          /\ k.op \in {"is_local_port_free", "is_port_reachable", "is_port_reachable_with_timeout"}
          /\ k.port = b.res[2]
          /\ k.op = "is_local_port_free" => k.fam = b.call.fam

Goto(c, label) == pc' = [pc EXCEPT ![c] = label]
Finish(c, v) == /\ pc' = [pc EXCEPT ![c] = "done"]
                /\ res' = [res EXCEPT ![c] = <<v>>]
Begin(c, k, label) ==
    /\ pc[c] = "idle"
    /\ call' = [call EXCEPT ![c] = k]
    /\ pc' = [pc EXCEPT ![c] = label]
    /\ log' = [log EXCEPT ![c] = <<>>]
    /\ before' = [before EXCEPT ![c] = IF Related(@, k) THEN @ ELSE NoCall]
    /\ UNCHANGED <<listeners, sock, res, clean, stale>>

---------------------------------------------------------------------------
(* is_local_port_free(port): is_local_ipv4_port_free / is_local_ipv6_port_free *)

Call_is_local_port_free(c) ==
    \E port \in Port :
        /\ Begin(c, [op |-> "is_local_port_free", fam |-> port.fam, port |-> port.port], "bind")
        /\ cur' = [cur EXCEPT ![c] = port.port]

\* TcpListener::bind(addr): the port under the cursor is bound, or the bind fails
is_local_port_free_bind(c) ==
    /\ pc[c] = "bind"
    /\ call[c].op = "is_local_port_free"
    /\ LET a == LocalSocketAddr(call[c].fam, cur[c])
           ok == bind_ok(Held(a[1], a[2]))
       IN  /\ log' = [log EXCEPT ![c] = Append(@, Entry(c, a[1], a[2], ok))]
           /\ IF ok
              THEN /\ sock' = [sock EXCEPT ![c] = Listener(a[1], a[2])]
                   /\ Goto(c, "drop")
                   /\ Disturb(c)
                   /\ UNCHANGED res
              ELSE /\ Finish(c, FALSE)
                   /\ Quiet
                   /\ UNCHANGED sock
    /\ UNCHANGED <<listeners, call, cur>>

\* .is_ok(): the temporary listener is dropped and the call returns true
is_local_port_free_drop(c) ==
    /\ pc[c] = "drop"
    /\ call[c].op = "is_local_port_free"
    /\ sock' = [sock EXCEPT ![c] = Drop(@)]
    /\ Finish(c, TRUE)
    /\ Disturb(c)
    /\ UNCHANGED <<listeners, call, cur, log>>

---------------------------------------------------------------------------
(* free_local_port_in_range(range):                                        *)
(* port_range.into_iter().find(|port| is_local_ipv4_port_free(port))       *)

\* fault: the scan ends after its first probe
range_next_Stops(k, p) == None

\* Iterator::next of the range after port p: the next port up, if the range has it
range_next(k, p) == IF p + 1 \in RangeItems(k.lo, k.hi, k.incl) THEN Some(p + 1) ELSE None

\* Iterator::next of a fresh range: its lowest port, if it has one
range_first(k) == IF k.lo \in RangeItems(k.lo, k.hi, k.incl) THEN Some(k.lo) ELSE None

Call_free_local_port_in_range(c) ==
    \E r \in Ports :
        LET k == [op |-> "free_local_port_in_range", fam |-> r.fam,
                  lo |-> r.lo, hi |-> r.hi, incl |-> r.incl]
        IN  /\ Begin(c, k, "bind")
            /\ cur' = [cur EXCEPT ![c] = r.lo]

\* find asks the range for its first port: an empty range ends the scan at once
free_local_port_in_range_first(c) ==
    /\ pc[c] = "bind"
    /\ call[c].op = "free_local_port_in_range"
    /\ log[c] = <<>>
    /\ range_first(call[c]) = None
    /\ Finish(c, None)
    /\ Quiet
    /\ UNCHANGED <<listeners, call, cur, sock, log>>

\* is_local_ipvN_port_free(port) on the port under the cursor
free_local_port_in_range_bind(c) ==
    /\ pc[c] = "bind"
    /\ call[c].op = "free_local_port_in_range"
    /\ log[c] # <<>> \/ range_first(call[c]) # None
    /\ LET a == LocalSocketAddr(call[c].fam, cur[c])
           ok == bind_ok(Held(a[1], a[2]))
           nxt == range_next(call[c], cur[c])
       IN  /\ log' = [log EXCEPT ![c] = Append(@, Entry(c, a[1], a[2], ok))]
           /\ IF ok
              THEN /\ sock' = [sock EXCEPT ![c] = Listener(a[1], a[2])]
                   /\ Goto(c, "drop")
                   /\ Disturb(c)
                   /\ UNCHANGED <<res, cur>>
              ELSE /\ UNCHANGED sock
                   /\ Quiet
                   /\ IF nxt = None
                      THEN Finish(c, None) /\ UNCHANGED cur
                      ELSE /\ cur' = [cur EXCEPT ![c] = nxt[2]]
                           /\ UNCHANGED <<pc, res>>
    /\ UNCHANGED <<listeners, call>>

\* the probe's listener is dropped; the probe said free, so find returns the port
free_local_port_in_range_drop(c) ==
    /\ pc[c] = "drop"
    /\ call[c].op = "free_local_port_in_range"
    /\ sock' = [sock EXCEPT ![c] = Drop(@)]
    /\ Disturb(c)
    /\ Finish(c, Some(cur[c]))
    /\ UNCHANGED <<listeners, call, cur, log>>

---------------------------------------------------------------------------
(* free_local_port() = free_local_ipv4_port(), free_local_ipv6_port()      *)

\* the ports the host hands out for a bind to port 0
Ephemeral == LocalPorts

Call_free_local_port(c) ==
    \E f \in Families :
        /\ Begin(c, [op |-> "free_local_port", fam |-> f], "bind")
        /\ cur' = [cur EXCEPT ![c] = 0]

\* TcpListener::bind(localhost:0): the host picks a port nothing holds on the
\* family; with none left the bind fails and the call returns None
free_local_port_bind(c) ==
    /\ pc[c] = "bind"
    /\ call[c].op = "free_local_port"
    /\ LET avail == {q \in Ephemeral : bind_ok(Held(q, call[c].fam))}
       IN  IF avail = {}
           THEN /\ Finish(c, None)
                /\ log' = [log EXCEPT ![c] = Append(@, Entry(c, 0, call[c].fam, FALSE))]
                /\ Quiet
                /\ UNCHANGED sock
           ELSE \E q \in avail :
                /\ sock' = [sock EXCEPT ![c] = Listener(q, call[c].fam)]
                /\ log' = [log EXCEPT ![c] = Append(@, Entry(c, q, call[c].fam, TRUE))]
                /\ Goto(c, "local_addr")
                /\ Disturb(c)
                /\ UNCHANGED res
    /\ UNCHANGED <<listeners, call, cur>>

\* .and_then(|listener| listener.local_addr()).map(|addr| addr.port()).ok():
\* the port is read back and the listener, moved into the closure, is dropped
free_local_port_local_addr(c) ==
    /\ pc[c] = "local_addr"
    /\ call[c].op = "free_local_port"
    /\ Finish(c, Some(local_port(sock[c])))
    /\ sock' = [sock EXCEPT ![c] = Drop(@)]
    /\ Disturb(c)
    /\ UNCHANGED <<listeners, call, cur, log>>

---------------------------------------------------------------------------
(* is_port_reachable(address) = TcpStream::connect(address).is_ok()        *)
(* std's connect resolves the address and tries each socket address in     *)
(* turn until one connects.                                                *)

\* fault: only the first candidate is tried
connect_tries_next_Never(addrs, i) == FALSE

\* whether connect goes on to the next candidate after candidate i failed
connect_tries_next(addrs, i) == i < Len(addrs)

Call_is_port_reachable(c) ==
    \E p \in LocalPorts, r \in Resolved :
        /\ r.ok /\ r.addrs # <<>> => r.addrs[1][1] = p
        /\ Begin(c, [op |-> "is_port_reachable", port |-> p, resolved |-> r], "resolve")
        /\ cur' = [cur EXCEPT ![c] = 1]

\* resolution failed, or yielded no address: connect returns an error
is_port_reachable_resolve(c) ==
    /\ pc[c] = "resolve"
    /\ call[c].op = "is_port_reachable"
    /\ IF call[c].resolved.ok /\ call[c].resolved.addrs # <<>>
       THEN Goto(c, "connect") /\ UNCHANGED res
       ELSE Finish(c, FALSE)
    /\ Quiet
    /\ UNCHANGED <<listeners, call, cur, sock, log>>

is_port_reachable_connect(c) ==
    /\ pc[c] = "connect"
    /\ call[c].op = "is_port_reachable"
    /\ LET a == call[c].resolved.addrs[cur[c]]
           ok == connect_ok(Held(a[1], a[2]))
       IN  /\ log' = [log EXCEPT ![c] = Append(@, Entry(c, a[1], a[2], ok))]
           /\ IF ok
              THEN /\ sock' = [sock EXCEPT ![c] = Stream(a[1], a[2])]
                   /\ Goto(c, "drop")
                   /\ UNCHANGED <<res, cur>>
              ELSE /\ UNCHANGED sock
                   /\ IF connect_tries_next(call[c].resolved.addrs, cur[c])
                      THEN /\ cur' = [cur EXCEPT ![c] = @ + 1]
                           /\ UNCHANGED <<pc, res>>
                      ELSE Finish(c, FALSE) /\ UNCHANGED cur
    /\ Quiet
    /\ UNCHANGED <<listeners, call>>

\* .is_ok(): the connected stream is dropped and the call returns true
is_port_reachable_drop(c) ==
    /\ pc[c] = "drop"
    /\ call[c].op = "is_port_reachable"
    /\ sock' = [sock EXCEPT ![c] = Drop(@)]
    /\ Finish(c, TRUE)
    /\ Quiet
    /\ UNCHANGED <<listeners, call, cur, log>>

---------------------------------------------------------------------------
(* is_port_reachable_with_timeout(address, timeout)                        *)
(* A connect that is refused and a connect that times out both fail, so    *)
(* the timeout does not appear in the model.                               *)

\* fault: the loop leaves out the last candidate
addrs_has_next_SkipsLast(addrs, i) == i + 1 < Len(addrs)

\* `for address in addrs`: whether the loop has a candidate after candidate i
addrs_has_next(addrs, i) == i < Len(addrs)

Call_is_port_reachable_with_timeout(c) ==
    \E p \in LocalPorts, r \in Resolved :
        /\ r.ok /\ r.addrs # <<>> => r.addrs[1][1] = p
        /\ Begin(c, [op |-> "is_port_reachable_with_timeout", port |-> p, resolved |-> r],
                 "resolve")
        /\ cur' = [cur EXCEPT ![c] = 1]

\* match address.to_socket_addrs(): Err(_) => false; an empty list ends the loop
is_port_reachable_with_timeout_resolve(c) ==
    /\ pc[c] = "resolve"
    /\ call[c].op = "is_port_reachable_with_timeout"
    /\ IF call[c].resolved.ok /\ addrs_has_next(call[c].resolved.addrs, 0)
       THEN Goto(c, "connect") /\ UNCHANGED res
       ELSE Finish(c, FALSE)
    /\ Quiet
    /\ UNCHANGED <<listeners, call, cur, sock, log>>

is_port_reachable_with_timeout_connect(c) ==
    /\ pc[c] = "connect"
    /\ call[c].op = "is_port_reachable_with_timeout"
    /\ LET a == call[c].resolved.addrs[cur[c]]
           ok == connect_ok(Held(a[1], a[2]))
       IN  /\ log' = [log EXCEPT ![c] = Append(@, Entry(c, a[1], a[2], ok))]
           /\ IF ok
              THEN /\ sock' = [sock EXCEPT ![c] = Stream(a[1], a[2])]
                   /\ Goto(c, "drop")
                   /\ UNCHANGED <<res, cur>>
              ELSE /\ UNCHANGED sock
                   /\ IF addrs_has_next(call[c].resolved.addrs, cur[c])
                      THEN /\ cur' = [cur EXCEPT ![c] = @ + 1]
                           /\ UNCHANGED <<pc, res>>
                      ELSE Finish(c, FALSE) /\ UNCHANGED cur
    /\ Quiet
    /\ UNCHANGED <<listeners, call>>

\* `{ return true; }`: the stream of the condition is dropped, the loop is left
is_port_reachable_with_timeout_drop(c) ==
    /\ pc[c] = "drop"
    /\ call[c].op = "is_port_reachable_with_timeout"
    /\ sock' = [sock EXCEPT ![c] = Drop(@)]
    /\ Finish(c, TRUE)
    /\ Quiet
    /\ UNCHANGED <<listeners, call, cur, log>>

---------------------------------------------------------------------------
(* The call returns to its caller, who may make the next call *)

Return(c) ==
    /\ pc[c] = "done"
    /\ pc' = [pc EXCEPT ![c] = "idle"]
    /\ before' = [before EXCEPT ![c] =
                     IF stale[c] THEN NoCall
                     ELSE [op |-> "some", call |-> call[c], res |-> res[c][1],
                           since |-> IF clean[c] THEN "begin" ELSE "return"]]
    /\ clean' = [clean EXCEPT ![c] = TRUE]
    /\ stale' = [stale EXCEPT ![c] = FALSE]
    /\ call' = [call EXCEPT ![c] = NoCall]
    /\ res' = [res EXCEPT ![c] = NoRes]
    /\ log' = [log EXCEPT ![c] = <<>>]
    /\ cur' = [cur EXCEPT ![c] = 0]
    /\ UNCHANGED <<listeners, sock>>

Probe(c) ==
    \/ Call_is_local_port_free(c)
    \/ is_local_port_free_bind(c)
    \/ is_local_port_free_drop(c)
    \/ Call_free_local_port_in_range(c)
    \/ free_local_port_in_range_first(c)
    \/ free_local_port_in_range_bind(c)
    \/ free_local_port_in_range_drop(c)

Step(c) ==
    \/ Probe(c)
    \/ Call_free_local_port(c)
    \/ free_local_port_bind(c)
    \/ free_local_port_local_addr(c)
    \/ Call_is_port_reachable(c)
    \/ is_port_reachable_resolve(c)
    \/ is_port_reachable_connect(c)
    \/ is_port_reachable_drop(c)
    \/ Call_is_port_reachable_with_timeout(c)
    \/ is_port_reachable_with_timeout_resolve(c)
    \/ is_port_reachable_with_timeout_connect(c)
    \/ is_port_reachable_with_timeout_drop(c)
    \/ Return(c)

\* one caller at a time (the library's tests are #[serial])
Next == Env \/ Step("a")

Spec == Init /\ [][Next]_vars

\* Two callers probing for free ports at the same time, over any fixed set of
\* listeners: "a" probes single ports and scans ranges, "b" probes single ports
NextConc ==
    \/ Probe("a")
    \/ Return("a")
    \/ Call_is_local_port_free("b")
    \/ is_local_port_free_bind("b")
    \/ is_local_port_free_drop("b")
    \/ Return("b")

ConcSpec == Init /\ [][NextConc]_vars

---------------------------------------------------------------------------
(* Properties *)

\* caller c has completed a call of operation op
Done(c, op) == pc[c] = "done" /\ call[c].op = op

\* port p lies within the bounds lo, hi, both included
Within(p, lo, hi) == lo <= p /\ p <= hi

\* port p belongs to the range of the call k
InRange(k, p) == k.lo <= p /\ (IF k.incl THEN p <= k.hi ELSE p < k.hi)

\* the previous call of c was free_local_port on family f, no other process has
\* changed the socket table since it returned, and it returned Some(p)
JustFreed(c, f, p) ==
    /\ before[c].op # "none"
    /\ before[c].since \in {"begin", "return"}
    /\ before[c].call.op = "free_local_port"
    /\ before[c].call.fam = f
    /\ before[c].res = Some(p)

\* C1: while a listening socket occupies localhost:p on family F,
\* is_local_port_free(p, F) returns false; a port that no listening socket
\* occupies on F is reported free whatever occupies it on the other family.
C1_OccupiedNotFree_FamiliesIndependent ==
    \A c \in Callers : Done(c, "is_local_port_free") =>
        /\ Len(log[c]) = 1
        /\ log[c][1].port = call[c].port
        /\ log[c][1].fam = call[c].fam
        /\ log[c][1].ext => res[c][1] = FALSE
        /\ ~log[c][1].ext /\ ~log[c][1].other => res[c][1] = TRUE

\* C1 witness: the port is occupied on the other family only, and reported free
C1_Witness ==
    /\ Done("a", "is_local_port_free")
    /\ log["a"][1].sib /\ ~log["a"][1].ext
    /\ res["a"][1] = TRUE

C3_ResultWithinBounds ==
    \A c \in Callers : Done(c, "free_local_port_in_range") =>
        /\ res[c][1] # None => Within(res[c][1][2], call[c].lo, call[c].hi)
        /\ (/\ clean[c] /\ ~stale[c]
            /\ \A v \in LocalPorts :
                  Within(v, call[c].lo, call[c].hi) => <<v, call[c].fam>> \in listeners)
              => res[c][1] = None
        /\ (/\ clean[c] /\ ~stale[c] /\ call[c].incl /\ res[c][1] = None)
              => \A v \in LocalPorts :
                    Within(v, call[c].lo, call[c].hi) => <<v, call[c].fam>> \in listeners

\* C3 witness: a scan that skipped an occupied port returned the upper bound
C3_Witness ==
    /\ Done("a", "free_local_port_in_range")
    /\ call["a"].lo < call["a"].hi
    /\ res["a"][1] = Some(call["a"].hi)

\* C4: free_local_port_in_range probes the ports of the range in ascending order
\* and returns the first that is free on the requested family: every port probed
\* before it was occupied on that family, and the result is None exactly when
\* every port of the range was occupied on that family; what holds the port on
\* the other family does not count.
C4_FirstFreeInAscendingOrder ==
    \A c \in Callers : Done(c, "free_local_port_in_range") =>
        /\ \A i \in 1..Len(log[c]) :
              /\ log[c][i].port = call[c].lo + i - 1
              /\ log[c][i].fam = call[c].fam
              /\ InRange(call[c], log[c][i].port)
              /\ ~log[c][i].other => log[c][i].ok = ~log[c][i].ext
              /\ i < Len(log[c]) => ~log[c][i].ok
        /\ res[c][1] # None =>
              /\ log[c] # <<>>
              /\ log[c][Len(log[c])].ok
              /\ res[c][1] = Some(log[c][Len(log[c])].port)
        /\ res[c][1] = None <=>
              \A p \in LocalPorts : InRange(call[c], p) =>
                  \E i \in 1..Len(log[c]) : log[c][i].port = p /\ ~log[c][i].ok

\* C4 witness: the scan passed an occupied port and returned a port that is
\* occupied on the other family
C4_Witness ==
    /\ Done("a", "free_local_port_in_range")
    /\ Len(log["a"]) >= 2
    /\ res["a"][1] # None
    /\ log["a"][Len(log["a"])].sib

\* the call of c is is_port_reachable on one socket address (SocketAddrV4/V6)
OneAddress(c) == call[c].resolved.ok /\ Len(call[c].resolved.addrs) = 1

\* C5: is_port_reachable on a loopback socket address returns true exactly when
\* a listener is bound on that address at the time of the connect, whatever is
\* bound on the same port of the other family: false before the listener is
\* bound, true while it is bound, false again once it is released.
C5_ReachableWhileBound ==
    \A c \in Callers : Done(c, "is_port_reachable") /\ OneAddress(c) =>
        /\ Len(log[c]) = 1
        /\ <<log[c][1].port, log[c][1].fam>> = call[c].resolved.addrs[1]
        /\ res[c][1] = (log[c][1].ext \/ log[c][1].other)

\* C5 witness: the call returned true, the listener was released, and the same
\* call now returns false while a listener is bound on the other family
C5_Witness ==
    /\ Done("a", "is_port_reachable") /\ OneAddress("a")
    /\ before["a"].op # "none"
    /\ before["a"].since = "released"
    /\ before["a"].call = call["a"]
    /\ before["a"].res = TRUE
    /\ res["a"][1] = FALSE
    /\ log["a"][1].sib

\* the connects of a completed call went through the resolved addresses in
\* order and stopped at the first success; the call returned true iff one
\* succeeded, false if resolution failed or gave nothing or every connect failed
TriesInOrderUntilSuccess(c) ==
    LET addrs == call[c].resolved.addrs
        n == Len(log[c])
    IN  /\ n <= Len(addrs)
        /\ \A i \in 1..n : /\ <<log[c][i].port, log[c][i].fam>> = addrs[i]
                           /\ log[c][i].ok = (log[c][i].ext \/ log[c][i].other)
                           /\ i < n => ~log[c][i].ok
        /\ res[c][1] = (n >= 1 /\ log[c][n].ok)
        /\ res[c][1] = FALSE => n = Len(addrs)
        /\ ~call[c].resolved.ok => n = 0

\* C6 as stated: is_port_reachable connects to the first resolved socket
\* address only, and returns true iff that one connect succeeds.
C6_FirstCandidateOnly ==
    \A c \in Callers : Done(c, "is_port_reachable") =>
        /\ Len(log[c]) <= 1
        /\ res[c][1] = (Len(log[c]) = 1 /\ log[c][1].ok)

\* C6 amended: is_port_reachable tries the resolved socket addresses one at a
\* time in resolver order until one connects; it returns true iff one connect
\* succeeds, false on resolution failure or when every candidate fails.
C6_TriesEveryCandidate ==
    \A c \in Callers : Done(c, "is_port_reachable") => TriesInOrderUntilSuccess(c)

\* C6 witness: the first candidate refused, the second accepted, the call
\* returned true
C6_Witness ==
    /\ Done("a", "is_port_reachable")
    /\ Len(log["a"]) = 2
    /\ ~log["a"][1].ok
    /\ res["a"][1] = TRUE

\* C7: is_port_reachable_with_timeout tries the resolved socket addresses one
\* at a time in resolver order, stops at the first success, returns true iff a
\* candidate accepts, and false when all fail, the list is empty or resolution
\* fails.
C7_TimeoutTriesInOrder ==
    \A c \in Callers :
        Done(c, "is_port_reachable_with_timeout") => TriesInOrderUntilSuccess(c)

\* C7 witness: the first of two candidates accepted and the second was not tried
C7_Witness ==
    /\ Done("a", "is_port_reachable_with_timeout")
    /\ Len(call["a"].resolved.addrs) = 2
    /\ Len(log["a"]) = 1
    /\ res["a"][1] = TRUE

\* the call of c is a reachability check of "localhost:p"
Reachability(c) ==
    pc[c] = "done" /\ call[c].op \in {"is_port_reachable", "is_port_reachable_with_timeout"}

\* C8 as stated: for the port p that free_local_port() has just returned, a
\* reachability check of "localhost:p" returns false whatever loopback
\* addresses the name resolves to.
C8_FreePortUnreachableByName ==
    \A c \in Callers :
        Reachability(c) /\ JustFreed(c, "Ipv4", call[c].port) => res[c][1] = FALSE

\* C8 amended: ... returns false provided no listener holds p on the IPv6
\* loopback address, or the name does not resolve to it.
C8_FreePortUnreachableUnlessIpv6Listener ==
    \A c \in Callers :
        (/\ Reachability(c) /\ JustFreed(c, "Ipv4", call[c].port)
         /\ \A i \in 1..Len(call[c].resolved.addrs) :
               call[c].resolved.addrs[i][2] = "Ipv6" => <<call[c].port, "Ipv6">> \notin listeners)
        => res[c][1] = FALSE

\* C8 witness: the name resolved to ::1 and 127.0.0.1, both were tried, the
\* check returned false
C8_Witness ==
    /\ Reachability("a") /\ JustFreed("a", "Ipv4", call["a"].port)
    /\ call["a"].op = "is_port_reachable"
    /\ Len(log["a"]) = 2
    /\ log["a"][1].fam = "Ipv6"
    /\ res["a"][1] = FALSE

\* C9: a call that has returned holds no socket, and the same call repeated
\* with no change by another process in between gives the same answer (for
\* free_local_port: a port again, or None again).
C9_SocketsReleased_SameAnswer ==
    \A c \in Callers :
        /\ pc[c] \in {"idle", "done"} => sock[c] = NoSock
        /\ (/\ pc[c] = "done" /\ clean[c]
            /\ before[c].op # "none"
            /\ before[c].since = "begin"
            /\ before[c].call = call[c])
           => IF call[c].op = "free_local_port"
              THEN (res[c][1] = None) = (before[c].res = None)
              ELSE res[c][1] = before[c].res

\* C9 witness: a scan that bound and released a port found the same port again
C9_Witness ==
    /\ Done("a", "free_local_port_in_range")
    /\ clean["a"]
    /\ before["a"].op # "none"
    /\ before["a"].since = "begin"
    /\ before["a"].call = call["a"]
    /\ Len(log["a"]) = 2
    /\ res["a"][1] # None

\* C10: a probe's answer is the listener-occupancy of the port unless another
\* caller's probe held the port at that moment; a probe that meets another
\* caller's probe is told "not free" although no listener holds the port.
C10_ProbesInterfere ==
    \A c \in Callers : pc[c] = "done" =>
        \A i \in 1..Len(log[c]) :
            /\ ~log[c][i].other => log[c][i].ok = ~log[c][i].ext
            /\ log[c][i].other => ~log[c][i].ok

\* C10 witness: both callers probed the same port, no listener holds it, one
\* was told free and the other not free
C10_Witness ==
    /\ Done("a", "is_local_port_free") /\ Done("b", "is_local_port_free")
    /\ call["a"] = call["b"]
    /\ ~log["a"][1].ext /\ ~log["b"][1].ext
    /\ res["a"][1] = TRUE /\ res["b"][1] = FALSE

\* C10, second interleaving: both callers were told that the same port is free
C10_BothToldFree ==
    /\ Done("a", "is_local_port_free") /\ Done("b", "is_local_port_free")
    /\ call["a"] = call["b"]
    /\ res["a"][1] = TRUE /\ res["b"][1] = TRUE

\* C10, a scan: a range scan skipped a port that only another caller's probe held
C10_ScanSkips ==
    /\ Done("a", "free_local_port_in_range")
    /\ Len(log["a"]) = 2
    /\ log["a"][1].other /\ ~log["a"][1].ext

====
